---- MODULE Spec2Model ----
(***************************************************************************)
(* spibridge.c: N virtual /dev nodes forwarding read/write/ioctl to a      *)
(* backing spidev through a strict FIFO ticket queue (g_next_ticket,       *)
(* g_serving, g_wq), an optional ownership hold (g_owner_fh,               *)
(* g_owner_until) and an execution mutex (g_exec_mutex).                   *)
(*                                                                         *)
(* Each execution context (a thread inside read/write/ioctl/compat_ioctl)  *)
(* is a process p with a program counter pc[p]; one action per atomic step *)
(* of the handler.  Time is kept relative to the current jiffies:          *)
(* g_owner_until holds g_owner_until - jiffies (floored at 0), waitLeft[p] *)
(* is the __ret of wait_event_interruptible_timeout (jiffies left).        *)
(*                                                                         *)
(* Spec and LiveSpec are the queue with its processes.  OpenSpec applies   *)
(* spibridge_open to every minor index under every setting of its module   *)
(* parameters; RelaySpec follows one handler call alone through the        *)
(* forwarders, for every shape of its file and of the backing file.        *)
(***************************************************************************)
EXTENDS Integers, Sequences, FiniteSets

\* ---------------------------------------------------------------- bounds
NProcs == 2
NFiles == 2
MaxTickets == 3
MaxHoldMs == 8
MaxTimeoutMs == 4
\* largest ndev and largest bus number tried by OpenSpec
MaxNdev == 11
MaxBus == 11

\* ------------------------------------------------------------- constants
\* jiffies per second of the kernel the module is built for
HZ == 250
\* the null pointer; the files and the processes are numbered from 1
NULL == 0
\* the value of ticket[p] outside a call
NoTicket == -1
\* the value of lastRelease after any step but spibridge_release
NoRelease == <<NULL, NULL>>
\* errno values
ETIMEDOUT == 110
ERESTARTSYS == 512
ENODEV == 19
ENOMEM == 12
ENOTTY == 25
EINVAL == 22
\* the default of the module parameter ndev
NdevDefault == 4
\* sizeof(backing_path) in spibridge_open
BackingPathSize == 64

Procs == 1..NProcs
Files == 1..NFiles
Tickets == 0..(MaxTickets - 1)
OpKinds == {"read", "write", "ioctl", "compat_ioctl"}
\* the members of struct file_operations the forwarders look at
EntryPoints == {"read", "write", "unlocked_ioctl", "compat_ioctl"}
\* what a backing entry point may return: a byte count or a negative errno
BackingResults == {4, -5}

VARIABLES
  owner_hold_ms,   \* module parameter
  timeout_ms,      \* module parameter
  g_next_ticket,   \* atomic64
  g_serving,       \* atomic64
  g_owner_fh,      \* NULL or the fh recorded as owner
  g_owner_until,   \* jiffies left until the recorded g_owner_until (0: elapsed)
  g_exec_mutex,    \* NULL or the process holding the mutex
  isopen,          \* isopen[f]: the struct file f is open (has a spibridge_fh)
  pc,              \* pc[p]: position of process p in its handler
  fh,              \* fh[p]: file->private_data of the call in progress
  ticket,          \* my_ticket of spibridge_queue_enter
  pending_err,     \* pending_err of spibridge_queue_enter
  rc,              \* rc of the wait loop
  waitLeft,        \* jiffies left of the current timed wait
  sigpending,      \* signal_pending(current)
  retval,          \* value the handler is about to return
  exitCalls,       \* history: number of spibridge_queue_exit calls per ticket
  allocLog,        \* history: tickets in the order they were allocated
  solo,            \* history, kept until the first check of the call: how
                   \* the queue stood when p allocated its ticket
  lastRelease,     \* history: <<f, owner>> when the step that led here was
                   \* spibridge_release of f and found g_owner_fh = owner
  ndev,            \* module parameter
  per_minor_backing, \* module parameter
  bus,             \* module parameter
  node,            \* node[f]: what spibridge_open did for the struct file f:
                   \* <<>> before the call, else one record (see spibridge_open)
  h_pc,            \* one handler call followed alone: "none", "start",
                   \* "forward" (admitted) or "done" (returned)
  h_kind,          \* which of the four handlers it is
  h_priv,          \* file->private_data: "null", "nofilp" (fh->backing_filp
                   \* is NULL) or "ok"
  h_f_op,          \* backing_filp->f_op: <<>> (NULL) or <<entry points set>>
  h_results,       \* what each entry point of the backing file would return
  h_called,        \* the entry point that was called, or "none"
  h_ret            \* the value the handler returned

vars == <<owner_hold_ms, timeout_ms, g_next_ticket, g_serving, g_owner_fh,
          g_owner_until, g_exec_mutex, isopen, pc, fh, ticket,
          pending_err, rc, waitLeft, sigpending, retval, exitCalls, allocLog,
          solo, lastRelease, ndev, per_minor_backing, bus, node, h_pc,
          h_kind, h_priv, h_f_op, h_results, h_called, h_ret>>

config == <<owner_hold_ms, timeout_ms>>
ownerv == <<g_owner_fh, g_owner_until>>
hist == <<exitCalls, allocLog, solo>>
openv == <<ndev, per_minor_backing, bus, node>>
relayv == <<h_pc, h_kind, h_priv, h_f_op, h_results, h_called, h_ret>>

\* ------------------------------------------------------------- helpers

\* linux/jiffies.h: round a positive millisecond count up to whole jiffies
msecs_to_jiffies(m) == (m * HZ + 999) \div 1000

\* faulty variant of FetchInc: the increment is lost
FetchIncMutant(n) == n
\* atomic64_fetch_inc: the new value of the counter
FetchInc(n) == n + 1

\* faulty variant of OwnerAfterExpiry: the deadline is never looked at
OwnerNeverExpires == g_owner_fh
\* lines 108-109: the lazy expiry of the owner inside spibridge_owner_allows
OwnerAfterExpiry ==
  IF g_owner_fh /= NULL /\ g_owner_until = 0 THEN NULL ELSE g_owner_fh

\* faulty variant of spibridge_owner_allows: the owner is never looked at
OwnerAllowsAnyone(f) == TRUE
\* spibridge_owner_allows: the value returned
spibridge_owner_allows(f) ==
  IF owner_hold_ms <= 0 THEN TRUE
  ELSE ~(OwnerAfterExpiry /= NULL /\ OwnerAfterExpiry /= f)

\* spibridge_owner_allows: g_owner_fh after the call
OwnerAfterAllows ==
  IF owner_hold_ms <= 0 THEN g_owner_fh ELSE OwnerAfterExpiry

\* faulty variants of Eligible: the cursor is not compared, or compared
\* with <= instead of ==
EligibleAnyTicket(p) == spibridge_owner_allows(fh[p])
EligibleNotYetServed(p) ==
  g_serving <= ticket[p] /\ spibridge_owner_allows(fh[p])
\* faulty variant of Eligible: the owner's endpoint passes whatever the
\* cursor
EligibleOwnerFirst(p) ==
  /\ g_serving = ticket[p] \/ (g_owner_fh = fh[p] /\ g_owner_until > 0)
  /\ spibridge_owner_allows(fh[p])
\* the admission condition of lines 154, 160, 165 and 170
Eligible(p) == g_serving = ticket[p] /\ spibridge_owner_allows(fh[p])

\* g_owner_fh after evaluating the admission condition (&& short-circuits)
OwnerAfterCond(p) ==
  IF g_serving = ticket[p] THEN OwnerAfterAllows ELSE g_owner_fh

\* line 157: the wait is bounded
Timed == timeout_ms > 0

\* p is inside a handler.  pc[p] is one of: "idle"; "enter" (ticket
\* allocated, first check ahead); "c154" (back at the head of the loop);
\* "wait" (runnable inside wait_event_interruptible); "sleep"; "c170";
\* "lock" (granted, before mutex_lock); "call" (inside the backing call,
\* holding the mutex); "exit" (before spibridge_queue_exit); "exit_inc"
\* (past its guard)
InFlight(p) == pc[p] /= "idle"

\* ---------------------------------------------------------------- Init
\* nothing in flight: the module has just been loaded
Idle ==
  /\ g_next_ticket = 0
  /\ g_serving = 0
  /\ g_owner_fh = NULL
  /\ g_owner_until = 0
  /\ g_exec_mutex = NULL
  /\ isopen = [f \in Files |-> FALSE]
  /\ pc = [p \in Procs |-> "idle"]
  /\ fh = [p \in Procs |-> NULL]
  /\ ticket = [p \in Procs |-> NoTicket]
  /\ pending_err = [p \in Procs |-> 0]
  /\ rc = [p \in Procs |-> 0]
  /\ waitLeft = [p \in Procs |-> 0]
  /\ sigpending = [p \in Procs |-> FALSE]
  /\ retval = [p \in Procs |-> 0]
  /\ exitCalls = [t \in Tickets |-> 0]
  /\ allocLog = <<>>
  /\ solo = [p \in Procs |-> "no"]
  /\ lastRelease = NoRelease

\* the parameters of spibridge_open at their defaults, no node opened
OpenDefaults ==
  /\ ndev = NdevDefault
  /\ per_minor_backing = FALSE
  /\ bus = 0
  /\ node = [f \in Files |-> <<>>]

\* no handler call is followed alone
RelayDefaults ==
  /\ h_pc = "none"
  /\ h_kind = "read"
  /\ h_priv = "ok"
  /\ h_f_op = <<EntryPoints>>
  /\ h_results = [e \in EntryPoints |-> 0]
  /\ h_called = "none"
  /\ h_ret = 0

Init ==
  /\ owner_hold_ms \in {0, MaxHoldMs}
  /\ timeout_ms \in {0, MaxTimeoutMs}
  /\ Idle
  /\ OpenDefaults
  /\ RelayDefaults

\* ------------------------------------------------------------- actions

\* spibridge_open returning 0: a new spibridge_fh with its backing file
\* (which backing file it is: see spibridge_open below)
Open(f) ==
  /\ ~isopen[f]
  /\ isopen' = [isopen EXCEPT ![f] = TRUE]
  /\ lastRelease' = NoRelease
  /\ UNCHANGED <<config, openv, relayv,
                 g_next_ticket, g_serving, ownerv, g_exec_mutex, pc,
                 fh, ticket, pending_err, rc, waitLeft, sigpending,
                 retval, hist>>

\* faulty variants of spibridge_owner_release: the owner is cleared whoever
\* it is, or never cleared
ReleaseClearsAnyOwner(f) == NULL
ReleaseKeepsOwner(f) == g_owner_fh
\* spibridge_owner_release: g_owner_fh after the call
spibridge_owner_release(f) == IF g_owner_fh = f THEN NULL ELSE g_owner_fh

\* spibridge_release: runs when the last reference to the file is dropped,
\* so no handler is running on it
Release(f) ==
  /\ isopen[f]
  /\ \A p \in Procs : InFlight(p) => fh[p] /= f
  /\ g_owner_fh' = spibridge_owner_release(f)
  /\ isopen' = [isopen EXCEPT ![f] = FALSE]
  /\ lastRelease' = <<f, g_owner_fh>>
  /\ UNCHANGED <<config, openv, relayv,
                 g_next_ticket, g_serving, g_owner_until,
                 g_exec_mutex, pc, fh, ticket, pending_err, rc,
                 waitLeft, sigpending, retval, hist>>

\* history value: how the queue stood when a ticket was allocated: "no" when
\* another ticket was outstanding, else "held" when another endpoint was the
\* recorded owner with its deadline still ahead, else "clear"
SoloAt(f) ==
  IF g_serving /= g_next_ticket THEN "no"
  ELSE IF owner_hold_ms > 0 /\ g_owner_fh \notin {NULL, f} /\ g_owner_until > 0
    THEN "held"
    ELSE "clear"

\* spibridge_read/write/ioctl/compat_ioctl up to line 146 of
\* spibridge_queue_enter: the fh check and the ticket allocation
Call(p, f) ==
  /\ pc[p] = "idle"
  /\ isopen[f]
  /\ g_next_ticket < MaxTickets
  /\ ticket' = [ticket EXCEPT ![p] = g_next_ticket]
  /\ g_next_ticket' = FetchInc(g_next_ticket)
  /\ allocLog' = Append(allocLog, g_next_ticket)
  /\ solo' = [solo EXCEPT ![p] = SoloAt(f)]
  /\ fh' = [fh EXCEPT ![p] = f]
  /\ pc' = [pc EXCEPT ![p] = "enter"]
  /\ lastRelease' = NoRelease
  /\ UNCHANGED <<config, openv, relayv,
                 g_serving, ownerv, g_exec_mutex, isopen,
                 pending_err, rc, waitLeft, sigpending, retval, exitCalls>>

\* spibridge_owner_touch: <<g_owner_fh, g_owner_until>> after the call, from
\* their values before it
spibridge_owner_touch(f, owner, until) ==
  IF owner_hold_ms <= 0 THEN <<owner, until>>
  ELSE <<f, msecs_to_jiffies(owner_hold_ms)>>

\* faulty variant of PendingErrPath: the failure is returned without
\* spibridge_queue_exit
PendingErrSkipsExit(p) == "idle"
\* lines 193-196: where a process with a recorded failure goes once granted
PendingErrPath(p) == "exit"

\* lines 190-200, after the loop was left with the condition true: a
\* recorded failure goes to spibridge_queue_exit and is returned; otherwise
\* spibridge_owner_touch, and 0 is returned to the handler
Grant(p) ==
  IF pending_err[p] /= 0
    THEN /\ retval' = [retval EXCEPT ![p] = pending_err[p]]
         /\ pc' = [pc EXCEPT ![p] = PendingErrPath(p)]
         /\ g_owner_fh' = OwnerAfterCond(p)
         /\ UNCHANGED g_owner_until
    ELSE /\ g_owner_fh' =
              spibridge_owner_touch(fh[p], OwnerAfterCond(p), g_owner_until)[1]
         /\ g_owner_until' =
              spibridge_owner_touch(fh[p], OwnerAfterCond(p), g_owner_until)[2]
         /\ pc' = [pc EXCEPT ![p] = "lock"]
         /\ UNCHANGED retval

\* line 154: the check at the head of the loop, reached from line 146
\* ("enter": the first check of the call) or from a continue ("c154")
Check154(p) ==
  /\ pc[p] \in {"enter", "c154"}
  /\ solo' = [solo EXCEPT ![p] = "no"]
  /\ IF Eligible(p)
       THEN /\ Grant(p)
            /\ UNCHANGED waitLeft
       ELSE /\ pc' = [pc EXCEPT ![p] = "wait"]
            /\ waitLeft' = [waitLeft EXCEPT ![p] =
                 IF Timed THEN msecs_to_jiffies(timeout_ms) ELSE 0]
            /\ g_owner_fh' = OwnerAfterCond(p)
            /\ UNCHANGED <<g_owner_until, retval>>
  /\ lastRelease' = NoRelease
  /\ UNCHANGED <<config, openv, relayv,
                 g_next_ticket, g_serving, g_exec_mutex, isopen, fh,
                 ticket, pending_err, rc, sigpending, exitCalls, allocLog>>

Max(a, b) == IF a >= b THEN a ELSE b

\* lines 157-168: one evaluation of the wait condition inside
\* wait_event_interruptible[_timeout] (on entry and after every wake-up):
\* condition true -> return (remaining jiffies, at least 1, or 0 untimed);
\* timed out -> return 0; signal pending -> return -ERESTARTSYS; else sleep
WaitCheck(p) ==
  /\ pc[p] = "wait"
  /\ g_owner_fh' = OwnerAfterCond(p)
  /\ IF Eligible(p)
       THEN /\ rc' = [rc EXCEPT ![p] = IF Timed THEN Max(waitLeft[p], 1) ELSE 0]
            /\ pc' = [pc EXCEPT ![p] = "c170"]
            /\ waitLeft' = [waitLeft EXCEPT ![p] = 0]
       ELSE IF Timed /\ waitLeft[p] = 0
         THEN /\ rc' = [rc EXCEPT ![p] = 0]
              /\ pc' = [pc EXCEPT ![p] = "c170"]
              /\ UNCHANGED waitLeft
         ELSE IF sigpending[p]
           THEN /\ rc' = [rc EXCEPT ![p] = -ERESTARTSYS]
                /\ pc' = [pc EXCEPT ![p] = "c170"]
                /\ waitLeft' = [waitLeft EXCEPT ![p] = 0]
           ELSE /\ pc' = [pc EXCEPT ![p] = "sleep"]
                /\ UNCHANGED <<rc, waitLeft>>
  /\ lastRelease' = NoRelease
  /\ UNCHANGED <<config, openv, relayv,
                 g_next_ticket, g_serving, g_owner_until,
                 g_exec_mutex, isopen, fh, ticket, pending_err,
                 sigpending, retval, hist>>

\* faulty variant of RecordFailure: a later failure replaces the first
RecordLastFailure(p) ==
  IF rc[p] = 0 THEN -ETIMEDOUT
  ELSE IF rc[p] < 0 THEN rc[p]
  ELSE pending_err[p]
\* lines 173-187: pending_err after a wait that ended with the call still
\* not eligible; only the first failure is recorded
RecordFailure(p) ==
  IF pending_err[p] /= 0 THEN pending_err[p]
  ELSE IF rc[p] = 0 THEN -ETIMEDOUT
  ELSE IF rc[p] < 0 THEN rc[p]
  ELSE 0

\* lines 170-187: the check after the wait, and the recording of a failure
\* (rc is local to one iteration of the loop)
Check170(p) ==
  /\ pc[p] = "c170"
  /\ IF Eligible(p)
       THEN /\ Grant(p)
            /\ UNCHANGED pending_err
       ELSE /\ pc' = [pc EXCEPT ![p] = "c154"]
            /\ pending_err' = [pending_err EXCEPT ![p] = RecordFailure(p)]
            /\ g_owner_fh' = OwnerAfterCond(p)
            /\ UNCHANGED <<g_owner_until, retval>>
  /\ rc' = [rc EXCEPT ![p] = 0]
  /\ lastRelease' = NoRelease
  /\ UNCHANGED <<config, openv, relayv,
                 g_next_ticket, g_serving, g_exec_mutex, isopen, fh,
                 ticket, waitLeft, sigpending, hist>>

\* faulty variant of MutexTaken: the mutex is not taken
MutexSkipped(p) == g_exec_mutex
\* mutex_lock(&g_exec_mutex): g_exec_mutex once p has passed it
MutexTaken(p) == p

\* lines 357, 380, 402, 425: mutex_lock(&g_exec_mutex)
MutexLock(p) ==
  /\ pc[p] = "lock"
  /\ g_exec_mutex = NULL
  /\ g_exec_mutex' = MutexTaken(p)
  /\ pc' = [pc EXCEPT ![p] = "call"]
  /\ lastRelease' = NoRelease
  /\ UNCHANGED <<config, openv, relayv,
                 g_next_ticket, g_serving, ownerv, isopen, fh,
                 ticket, pending_err, rc, waitLeft, sigpending, retval, hist>>

\* faulty variant of ForwardEntry: no fallback for compat_ioctl
ForwardEntryNoFallback(k, ops) ==
  IF k = "read" /\ "read" \in ops THEN "read"
  ELSE IF k = "write" /\ "write" \in ops THEN "write"
  ELSE IF k = "ioctl" /\ "unlocked_ioctl" \in ops THEN "unlocked_ioctl"
  ELSE IF k = "compat_ioctl" /\ "compat_ioctl" \in ops THEN "compat_ioctl"
  ELSE "none"
\* lines 227-228, 244-245, 261-262, 279-284: the entry point of the backing
\* file that the forwarder of kind k calls, given the set ops of the entry
\* points the file has; "none" when it calls none
ForwardEntry(k, ops) ==
  IF k = "read" THEN (IF "read" \in ops THEN "read" ELSE "none")
  ELSE IF k = "write" THEN (IF "write" \in ops THEN "write" ELSE "none")
  ELSE IF k = "ioctl"
    THEN (IF "unlocked_ioctl" \in ops THEN "unlocked_ioctl" ELSE "none")
  ELSE IF "compat_ioctl" \in ops THEN "compat_ioctl"
  ELSE IF "unlocked_ioctl" \in ops THEN "unlocked_ioctl"
  ELSE "none"

\* lines 230, 247, 264, 286: the value returned when no entry point applies
NoEntryError(k) == IF k \in {"read", "write"} THEN -EINVAL ELSE -ENOTTY

\* spibridge_forward_read/write/ioctl/compat_ioctl: the value returned;
\* filp: backing_filp is not NULL; f_op: <<>> or <<entry points>>; res[e]:
\* the value the entry point e returns when called
spibridge_forward(k, filp, f_op, res) ==
  IF ~filp THEN -ENODEV
  ELSE IF f_op = <<>> THEN -ENODEV
  ELSE IF ForwardEntry(k, f_op[1]) /= "none"
    THEN res[ForwardEntry(k, f_op[1])]
  ELSE NoEntryError(k)

\* faulty variant of MutexUnlock: the mutex is kept
MutexStillHeld(p) == g_exec_mutex
\* mutex_unlock(&g_exec_mutex): g_exec_mutex after it
MutexUnlock(p) == NULL

\* lines 358-359, 381-382, 403-404, 426-427: the backing entry point called
\* by the handler of kind k (the four handlers differ in this call only)
\* returns a value, and mutex_unlock(&g_exec_mutex); the backing file is a
\* spidev, which has every entry point
Forward(p, k) ==
  /\ pc[p] = "call"
  /\ \E r \in BackingResults :
       retval' = [retval EXCEPT ![p] =
         spibridge_forward(k, TRUE, <<EntryPoints>>,
                           [e \in EntryPoints |-> r])]
  /\ g_exec_mutex' = MutexUnlock(p)
  /\ pc' = [pc EXCEPT ![p] = "exit"]
  /\ lastRelease' = NoRelease
  /\ UNCHANGED <<config, openv, relayv,
                 g_next_ticket, g_serving, ownerv, isopen, fh,
                 ticket, pending_err, rc, waitLeft, sigpending, hist>>

\* the handler returns retval to its caller: the locals of the call are gone
Returned(p) ==
  /\ ticket' = [ticket EXCEPT ![p] = NoTicket]
  /\ fh' = [fh EXCEPT ![p] = NULL]
  /\ pending_err' = [pending_err EXCEPT ![p] = 0]
  /\ sigpending' = [sigpending EXCEPT ![p] = FALSE]
  /\ retval' = [retval EXCEPT ![p] = 0]
  /\ solo' = [solo EXCEPT ![p] = "no"]

\* spibridge_queue_exit line 206: the guard; a ticket that is not being
\* served changes nothing and the handler returns
QueueExitRead(p) ==
  /\ pc[p] = "exit"
  /\ exitCalls' = [exitCalls EXCEPT ![ticket[p]] = @ + 1]
  /\ IF g_serving = ticket[p]
       THEN /\ pc' = [pc EXCEPT ![p] = "exit_inc"]
            /\ UNCHANGED <<fh, ticket, pending_err, sigpending, retval, solo>>
       ELSE /\ pc' = [pc EXCEPT ![p] = "idle"]
            /\ Returned(p)
  /\ lastRelease' = NoRelease
  /\ UNCHANGED <<config, openv, relayv,
                 g_next_ticket, g_serving, ownerv, g_exec_mutex,
                 isopen, rc, waitLeft, allocLog>>

\* faulty variant of ServingInc: the increment is lost
ServingIncLost(n) == n
\* atomic64_inc(&g_serving): the new value
ServingInc(n) == n + 1

\* spibridge_queue_exit lines 207-208: atomic64_inc and wake_up_all; then
\* the handler returns
QueueExitInc(p) ==
  /\ pc[p] = "exit_inc"
  /\ g_serving' = ServingInc(g_serving)
  /\ pc' = [q \in Procs |-> IF q = p THEN "idle"
                            ELSE IF pc[q] = "sleep" THEN "wait" ELSE pc[q]]
  /\ Returned(p)
  /\ lastRelease' = NoRelease
  /\ UNCHANGED <<config, openv, relayv,
                 g_next_ticket, ownerv, g_exec_mutex, isopen, rc,
                 waitLeft, exitCalls, allocLog>>

\* a signal is delivered to a process inside wait_event_interruptible (the
\* only place that reads signal_pending); a sleeper in TASK_INTERRUPTIBLE is
\* made runnable
Signal(p) ==
  /\ pc[p] \in {"wait", "sleep"}
  /\ ~sigpending[p]
  /\ sigpending' = [sigpending EXCEPT ![p] = TRUE]
  /\ pc' = [pc EXCEPT ![p] = IF pc[p] = "sleep" THEN "wait" ELSE pc[p]]
  /\ lastRelease' = NoRelease
  /\ UNCHANGED <<config, openv, relayv,
                 g_next_ticket, g_serving, ownerv, g_exec_mutex,
                 isopen, fh, ticket, pending_err, rc, waitLeft,
                 retval, hist>>

\* a sleeper inside schedule_timeout whose timer is running
Sleeping(p) == pc[p] = "sleep" /\ Timed /\ waitLeft[p] > 0

\* one jiffy passes: the hold deadline comes closer, the timers of the
\* sleepers in schedule_timeout run down, and a sleeper whose timer fires
\* is made runnable
Tick ==
  /\ g_owner_until > 0 \/ \E p \in Procs : Sleeping(p)
  /\ g_owner_until' = IF g_owner_until > 0 THEN g_owner_until - 1 ELSE 0
  /\ waitLeft' = [p \in Procs |->
       IF Sleeping(p) THEN waitLeft[p] - 1 ELSE waitLeft[p]]
  /\ pc' = [p \in Procs |->
       IF Sleeping(p) /\ waitLeft[p] = 1 THEN "wait" ELSE pc[p]]
  /\ lastRelease' = NoRelease
  /\ UNCHANGED <<config, openv, relayv,
                 g_next_ticket, g_serving, g_owner_fh, g_exec_mutex,
                 isopen, fh, ticket, pending_err, rc, sigpending,
                 retval, hist>>

\* the steps a process takes on its own once inside a handler
Step(p) ==
  \/ Check154(p)
  \/ WaitCheck(p)
  \/ Check170(p)
  \/ MutexLock(p)
  \/ \E k \in OpKinds : Forward(p, k)
  \/ QueueExitRead(p)
  \/ QueueExitInc(p)

Next ==
  \/ \E f \in Files : Open(f)
  \/ \E f \in Files : Release(f)
  \/ \E p \in Procs, f \in Files : Call(p, f)
  \/ \E p \in Procs : Step(p)
  \/ \E p \in Procs : Signal(p)
  \/ Tick

Spec == Init /\ [][Next]_vars

\* the scheduler runs every runnable process, the backing call returns and
\* time passes; signals and new calls may or may not come
Fairness == WF_vars(Tick) /\ \A p \in Procs : WF_vars(Step(p))
LiveSpec == Init /\ [][Next]_vars /\ Fairness

\* ---------------------------------------------- spibridge_open in detail

\* the characters of "/dev/spidev", and the default of the parameter backing
DevSpidev == <<"/", "d", "e", "v", "/", "s", "p", "i", "d", "e", "v">>
backing == DevSpidev \o <<"0", ".", "0">>

Digits == <<"0", "1", "2", "3", "4", "5", "6", "7", "8", "9">>

\* the conversion %d of scnprintf
RECURSIVE FormatD(_)
FormatD(n) ==
  IF n < 0 THEN <<"-">> \o FormatD(-n)
  ELSE IF n < 10 THEN <<Digits[n + 1]>>
  ELSE FormatD(n \div 10) \o <<Digits[(n % 10) + 1]>>

\* scnprintf: at most size - 1 characters are stored
scnprintf(size, s) == IF Len(s) < size THEN s ELSE SubSeq(s, 1, size - 1)

\* line 308: "/dev/spidev%d.%d", bus, idx
BackingPath(i) ==
  scnprintf(BackingPathSize,
            DevSpidev \o FormatD(bus) \o <<".">> \o FormatD(i))

\* faulty variant of selected_backing: per_minor_backing is not looked at
SelectedIgnoresMode(i) == backing
\* lines 295 and 307-310: the path handed to filp_open
selected_backing(i) == IF per_minor_backing THEN BackingPath(i) ELSE backing

\* line 302
IdxInRange(i) == ~(i < 0 \/ i >= ndev)

\* what filp_open may return: a file (0) or an ERR_PTR (-ENOENT)
FilpOpenResults == {0, -2}

\* what spibridge_open did: resolved tells whether lines 301-310 ran, idx is
\* iminor(inode) - MINOR(g_base_devno), ret the value returned, backing the
\* path handed to filp_open (<<>> when it was not called)
OpenRecord(i, mem, err) ==
  IF ~mem
    THEN [resolved |-> FALSE, idx |-> 0, ret |-> -ENOMEM, backing |-> <<>>]
  ELSE IF ~IdxInRange(i)
    THEN [resolved |-> TRUE, idx |-> i, ret |-> -ENODEV, backing |-> <<>>]
  ELSE [resolved |-> TRUE, idx |-> i, ret |-> err,
        backing |-> selected_backing(i)]

\* spibridge_open on the struct file f of the node with index i; mem: kzalloc
\* succeeded; err: the outcome of filp_open
spibridge_open(f, i, mem, err) ==
  /\ node[f] = <<>>
  /\ ~isopen[f]
  /\ node' = [node EXCEPT ![f] = <<OpenRecord(i, mem, err)>>]
  /\ isopen' = [isopen EXCEPT ![f] = OpenRecord(i, mem, err).ret = 0]
  /\ UNCHANGED <<config, ndev, per_minor_backing, bus, g_next_ticket,
                 g_serving, ownerv, g_exec_mutex, pc, fh, ticket, pending_err,
                 rc, waitLeft, sigpending, retval, hist, lastRelease, relayv>>

\* the inputs of spibridge_open: the module parameters and, in OpenNext, the
\* minor numbers (one below and one above the range included)
OpenInit ==
  /\ owner_hold_ms = 0
  /\ timeout_ms = 0
  /\ Idle
  /\ ndev \in {1, MaxNdev}
  /\ per_minor_backing \in BOOLEAN
  /\ bus \in {-1, 0, MaxBus}
  /\ node = [f \in Files |-> <<>>]
  /\ RelayDefaults

OpenNext ==
  \E f \in Files, i \in (-1)..MaxNdev, mem \in BOOLEAN,
     err \in FilpOpenResults :
    spibridge_open(f, i, mem, err)

OpenSpec == OpenInit /\ [][OpenNext]_vars

\* ------------------------------------------- one handler call in detail

\* faulty variant of HandlerNoDevice: the check is missing
HandlerNoCheck(priv) == FALSE
\* lines 350, 373, 395, 418: !fh || !fh->backing_filp
HandlerNoDevice(priv) == priv /= "ok"

\* the inputs of a handler: its kind, file->private_data, and the backing
\* file's entry points with what each returns; the queue is idle
RelayInit ==
  /\ owner_hold_ms \in {0, MaxHoldMs}
  /\ timeout_ms = 0
  /\ Idle
  /\ OpenDefaults
  /\ h_pc = "start"
  /\ h_kind \in OpKinds
  /\ h_priv \in {"null", "nofilp", "ok"}
  /\ h_f_op \in {<<>>} \cup {<<ops>> : ops \in SUBSET EntryPoints}
  /\ h_results \in [EntryPoints -> BackingResults]
  /\ h_called = "none"
  /\ h_ret = 0

\* lines 350-355 (and 373-378, 395-400, 418-423): the check of the handle,
\* then spibridge_queue_enter with nobody else in the queue: the ticket is
\* allocated, found to be served, and spibridge_owner_touch runs (the
\* struct file of the call is file 1)
HandlerEntry ==
  /\ h_pc = "start"
  /\ IF HandlerNoDevice(h_priv)
       THEN /\ h_ret' = -ENODEV
            /\ h_pc' = "done"
            /\ UNCHANGED <<g_next_ticket, ownerv>>
       ELSE /\ g_serving = g_next_ticket
            /\ spibridge_owner_allows(1)
            /\ g_next_ticket' = FetchInc(g_next_ticket)
            /\ g_owner_fh' =
                 spibridge_owner_touch(1, OwnerAfterAllows, g_owner_until)[1]
            /\ g_owner_until' =
                 spibridge_owner_touch(1, OwnerAfterAllows, g_owner_until)[2]
            /\ h_pc' = "forward"
            /\ UNCHANGED h_ret
  /\ UNCHANGED <<config, openv, g_serving, g_exec_mutex, isopen, pc, fh,
                 ticket, pending_err, rc, waitLeft, sigpending, retval, hist,
                 lastRelease, h_kind, h_priv, h_f_op, h_results, h_called>>

\* lines 357-362 (and 380-385, 402-407, 425-430): mutex_lock, the forwarder,
\* mutex_unlock, spibridge_queue_exit and the return
HandlerForward ==
  /\ h_pc = "forward"
  /\ g_exec_mutex = NULL
  /\ h_called' = IF h_priv = "ok" /\ h_f_op /= <<>>
                   THEN ForwardEntry(h_kind, h_f_op[1]) ELSE "none"
  /\ h_ret' = spibridge_forward(h_kind, h_priv = "ok", h_f_op, h_results)
  /\ g_serving' = ServingInc(g_serving)
  /\ h_pc' = "done"
  /\ UNCHANGED <<config, openv, g_next_ticket, ownerv, g_exec_mutex, isopen,
                 pc, fh, ticket, pending_err, rc, waitLeft, sigpending,
                 retval, hist, lastRelease, h_kind, h_priv, h_f_op,
                 h_results>>

RelayNext == HandlerEntry \/ HandlerForward

RelaySpec == RelayInit /\ [][RelayNext]_vars

\* ------------------------------------------------------------- claims

\* processes past admission: between the grant and the end of
\* spibridge_queue_exit
Admitted(p) == pc[p] \in {"lock", "call", "exit", "exit_inc"}
InQueue(p) == pc[p] \in {"enter", "c154", "wait", "sleep", "c170"}
InBackingCall == {p \in Procs : pc[p] = "call"}

\* C1: at every instant at most one operation is between acquiring and
\* releasing the execution gate, and whoever is inside a backing call is the
\* holder of the gate.
C1_OneInBackingCall ==
  /\ Cardinality(InBackingCall) <= 1
  /\ \A p \in InBackingCall : g_exec_mutex = p

\* C1 witness: one operation is inside its backing call while another one,
\* issued concurrently, waits in the queue.
C1_Witness ==
  \E p, q \in Procs :
    /\ pc[p] = "call"
    /\ pc[q] \in {"wait", "sleep"}
    /\ ticket[q] > ticket[p]

\* ticket s is retired: the cursor is past it and its call has returned
Retired(s) == s < g_serving /\ \A q \in Procs : ticket[q] /= s

\* C2: an operation is admitted (and holds or awaits the gate) only when
\* every ticket allocated before its own has retired, with the hold enabled
\* or disabled and whoever the owner is.
C2_AdmittedInTicketOrder ==
  \A p \in Procs :
    Admitted(p) => \A s \in 0..(ticket[p] - 1) : Retired(s)

\* C2 witness: with the hold enabled, an operation with a later ticket is
\* admitted while an operation of another endpoint with a still later ticket
\* is queued behind it.
C2_Witness ==
  /\ owner_hold_ms > 0
  /\ \E p, q \in Procs :
       /\ pc[p] \in {"lock", "call"}
       /\ ticket[p] >= 1
       /\ InQueue(q)
       /\ ticket[q] > ticket[p]
       /\ fh[q] /= fh[p]

\* C3: every operation that has allocated a ticket eventually sees the
\* serving cursor advance past its ticket (and returns), in every
\* configuration of hold and timeout.
C3_EveryTicketRetires ==
  \A t \in Tickets : (g_next_ticket > t) ~> (g_serving > t)

\* C4: spibridge_queue_exit is called at most once per ticket, and once the
\* call that allocated ticket t has returned it has been called exactly once
\* for t and the serving cursor is greater than t.
C4_ExitOncePerTicket ==
  \A t \in Tickets :
    /\ exitCalls[t] <= 1
    /\ (t < g_next_ticket /\ \A q \in Procs : InFlight(q) => ticket[q] /= t)
         => (exitCalls[t] = 1 /\ g_serving > t)

\* C4 witness: a call has returned and retired its ticket, and another call,
\* interrupted by a signal while it waited, is inside spibridge_queue_exit
\* on its failure path.
C4_Witness ==
  \E p \in Procs :
    /\ pc[p] = "exit_inc"
    /\ retval[p] = -ERESTARTSYS
    /\ exitCalls[ticket[p]] = 1
    /\ ticket[p] >= 1
    /\ Retired(ticket[p] - 1)

\* C5: the tickets are allocated in strictly increasing order, so no ticket
\* is given twice, and no two calls in progress hold the same ticket.
C5_TicketsInjectiveMonotonic ==
  /\ \A i, j \in DOMAIN allocLog : i < j => allocLog[i] < allocLog[j]
  /\ \A p, q \in Procs :
       (p /= q /\ InFlight(p) /\ InFlight(q)) => ticket[p] /= ticket[q]

\* C5 witness: every ticket of the bound has been allocated, two of them to
\* calls that are in progress together.
C5_Witness ==
  /\ Len(allocLog) = MaxTickets
  /\ \E p, q \in Procs : p /= q /\ InFlight(p) /\ InFlight(q)

\* C6: the serving cursor is at most every outstanding ticket and at most
\* the ticket counter; it changes only by one, in the exit call of the
\* ticket it equals, which always advances it; an exit call with another
\* ticket leaves it unchanged.
C6_CursorAdvancesByOne ==
  /\ [](g_serving <= g_next_ticket)
  /\ [](\A p \in Procs : InFlight(p) => g_serving <= ticket[p])
  /\ [][\/ g_serving' = g_serving
        \/ /\ g_serving' = g_serving + 1
           /\ \E p \in Procs : pc[p] = "exit_inc" /\ ticket[p] = g_serving
                               /\ pc'[p] = "idle"]_vars
  /\ [][\A p \in Procs :
          /\ (pc[p] = "exit_inc" /\ pc'[p] = "idle")
               => g_serving' = g_serving + 1
          /\ (pc[p] = "exit" /\ pc'[p] /= "exit" /\ ticket[p] /= g_serving)
               => g_serving' = g_serving]_vars

\* C6 witness: the cursor has advanced, the call at the cursor is about to
\* advance it again, and a later ticket is outstanding.
C6_Witness ==
  /\ g_serving >= 1
  /\ \E p, q \in Procs :
       /\ pc[p] = "exit_inc"
       /\ InFlight(q)
       /\ ticket[q] > g_serving

\* the hold does not exclude endpoint f: no owner, f is the owner, or
\* the hold deadline has elapsed
HoldPermits(f) == g_owner_fh = NULL \/ g_owner_fh = f \/ g_owner_until = 0

\* C7: with the hold enabled, a call is admitted only in a state where the
\* serving cursor equals its ticket and no owner is recorded, the owner is
\* its own endpoint, or the hold deadline has elapsed.
C7_AdmissionRespectsHold ==
  [][owner_hold_ms > 0 =>
       \A p \in Procs :
         (InQueue(p) /\ pc'[p] \in {"lock", "call", "exit", "exit_inc"})
           => (g_serving = ticket[p] /\ HoldPermits(fh[p]))]_vars

\* C7 witness: with the hold enabled, a call at the front of the queue is
\* kept waiting because another endpoint is the owner and its deadline has
\* not elapsed.
C7_Witness ==
  /\ owner_hold_ms > 0
  /\ \E p \in Procs :
       /\ pc[p] \in {"wait", "sleep"}
       /\ g_serving = ticket[p]
       /\ ~HoldPermits(fh[p])

\* C8: with the hold disabled, every eligibility check admits the call if
\* and only if the serving cursor equals its ticket, and a call is put to
\* sleep only while the cursor differs from its ticket.
C8_PureFifoWhenHoldDisabled ==
  [][owner_hold_ms <= 0 =>
       \A p \in Procs :
         /\ (pc[p] \in {"enter", "c154", "c170"} /\ pc'[p] /= pc[p])
              => (pc'[p] \in {"lock", "exit"} <=> g_serving = ticket[p])
         /\ (pc[p] = "wait" /\ pc'[p] = "sleep")
              => g_serving /= ticket[p]]_vars

\* C8 witness: with the hold disabled, a call of one endpoint executes while
\* the call holding the next ticket, of another endpoint, is queued.
C8_Witness ==
  /\ owner_hold_ms <= 0
  /\ \E p, q \in Procs :
       /\ pc[p] = "call"
       /\ ticket[p] >= 1
       /\ InQueue(q)
       /\ fh[q] /= fh[p]
       /\ ticket[q] = ticket[p] + 1

\* C9: a waiter at the front of the queue that was ineligible only because
\* of the hold is woken once the hold has ended: no process stays asleep
\* while the cursor equals its ticket and the hold permits its endpoint.
C9_HoldEndWakesWaiter ==
  \A p \in Procs :
    ~(pc[p] = "sleep" /\ g_serving = ticket[p] /\ HoldPermits(fh[p]))

\* C10 as claimed: with a bounded timeout, a call that allocated its ticket
\* while no other ticket was outstanding is admitted at its first check.
C10_SoloAdmittedAtFirstCheck ==
  [][\A p \in Procs :
       (Timed /\ pc[p] = "enter" /\ solo[p] /= "no" /\ pc'[p] /= "enter")
         => pc'[p] = "lock"]_vars

\* C10 amended: with a bounded timeout, a call that allocated its ticket
\* while no other ticket was outstanding and while the hold did not exclude
\* its endpoint is admitted at its first check, without entering the wait.
C10_SoloClearAdmittedAtFirstCheck ==
  [][\A p \in Procs :
       (Timed /\ pc[p] = "enter" /\ solo[p] = "clear" /\ pc'[p] /= "enter")
         => pc'[p] = "lock"]_vars

\* C10 witness: with a bounded timeout and the hold enabled, a call that
\* found the queue empty and an owner whose hold no longer excludes it is
\* at its first check.
C10_Witness ==
  /\ Timed
  /\ owner_hold_ms > 0
  /\ \E p \in Procs :
       /\ pc[p] = "enter"
       /\ solo[p] = "clear"
       /\ g_owner_fh /= NULL
       /\ ticket[p] >= 1

\* C11: spibridge_release of an endpoint clears the recorded owner if and
\* only if the owner is that endpoint; when another endpoint is the owner,
\* the owner and the hold deadline stay as they are; the serving cursor and
\* the ticket counter are never changed by it.
C11_ReleaseFrame ==
  [][\A f \in Files :
       (isopen[f] /\ ~isopen'[f]) =>
         /\ (g_owner_fh = f) => g_owner_fh' = NULL
         /\ (g_owner_fh /= f) => (g_owner_fh' = g_owner_fh
                                    /\ g_owner_until' = g_owner_until)
         /\ g_serving' = g_serving
         /\ g_next_ticket' = g_next_ticket]_vars

\* C11 witness: an endpoint has just been closed while another endpoint was
\* the recorded owner with its deadline ahead and tickets were outstanding;
\* the owner is still that other endpoint.
C11_Witness ==
  /\ lastRelease[1] /= NULL
  /\ lastRelease[2] \notin {NULL, lastRelease[1]}
  /\ g_owner_fh = lastRelease[2]
  /\ g_owner_until > 0
  /\ g_serving >= 1
  /\ g_next_ticket > g_serving

\* the value of a decimal digit character
DigitVal(c) == CHOOSE d \in 0..9 : Digits[d + 1] = c

\* the number written by a sequence of decimal digits
RECURSIVE ParseNat(_)
ParseNat(s) ==
  IF s = <<>> THEN 0
  ELSE ParseNat(SubSeq(s, 1, Len(s) - 1)) * 10 + DigitVal(s[Len(s)])

ParseInt(s) == IF s[1] = "-" THEN -ParseNat(Tail(s)) ELSE ParseNat(s)

\* <<bus, index>> named by a path "/dev/spidev<bus>.<index>"
TargetOf(path) ==
  LET rest == SubSeq(path, Len(DevSpidev) + 1, Len(path))
      dot == CHOOSE k \in 1..Len(rest) : rest[k] = "."
  IN <<ParseInt(SubSeq(rest, 1, dot - 1)),
       ParseInt(SubSeq(rest, dot + 1, Len(rest)))>>

\* the nodes on which spibridge_open got as far as the index check
Resolved == {f \in Files : node[f] /= <<>> /\ node[f][1].resolved}

\* C12: an index outside 0..ndev-1 fails with -ENODEV and opens nothing; in
\* shared mode every index in range resolves to the configured backing path;
\* in per-index mode index i resolves to the path that names (bus, i), so
\* equal indexes resolve to the same path and different indexes to
\* different paths.
C12_ResolveByIndex ==
  \A f \in Resolved :
    LET n == node[f][1] IN
      /\ n.idx \notin 0..(ndev - 1) =>
           (n.ret = -ENODEV /\ n.backing = <<>> /\ ~isopen[f])
      /\ n.idx \in 0..(ndev - 1) =>
           /\ ~per_minor_backing => n.backing = backing
           /\ per_minor_backing =>
                /\ SubSeq(n.backing, 1, Len(DevSpidev)) = DevSpidev
                /\ TargetOf(n.backing) = <<bus, n.idx>>
           /\ \A g \in Resolved :
                LET m == node[g][1] IN
                  m.idx \in 0..(ndev - 1) =>
                    /\ m.idx = n.idx => m.backing = n.backing
                    /\ (per_minor_backing /\ m.idx /= n.idx)
                         => m.backing /= n.backing

\* C12 witness: per-index mode on bus 0; the nodes with index 2 and index 0
\* have both been opened.
C12_Witness ==
  /\ per_minor_backing
  /\ bus = 0
  /\ \E f, g \in Resolved :
       /\ node[f][1].idx = 2 /\ isopen[f]
       /\ node[g][1].idx = 0 /\ isopen[g]

\* the handler call that is followed has returned after its forwarder ran
\* on a backing file with entry points
Relayed == h_pc = "done" /\ h_priv = "ok" /\ h_f_op /= <<>>

\* the handler returned what the entry point e returned, and e is the one
\* that was called
RelayedFrom(e) == h_called = e /\ h_ret = h_results[e]

\* C13: the handler returns the value produced by the backing file's entry
\* point of the requested kind, unchanged; a compat_ioctl call uses the
\* backing compat_ioctl entry point when there is one and otherwise the
\* unlocked_ioctl entry point.
C13_RelayUnchanged ==
  Relayed =>
    LET ops == h_f_op[1] IN
      /\ (h_kind = "read" /\ "read" \in ops) => RelayedFrom("read")
      /\ (h_kind = "write" /\ "write" \in ops) => RelayedFrom("write")
      /\ (h_kind = "ioctl" /\ "unlocked_ioctl" \in ops)
           => RelayedFrom("unlocked_ioctl")
      /\ (h_kind = "compat_ioctl" /\ "compat_ioctl" \in ops)
           => RelayedFrom("compat_ioctl")
      /\ (h_kind = "compat_ioctl" /\ "compat_ioctl" \notin ops
             /\ "unlocked_ioctl" \in ops)
           => RelayedFrom("unlocked_ioctl")

\* C13 witness: a compat_ioctl call on a backing file without a compat_ioctl
\* entry point has returned the failure its unlocked_ioctl produced, while
\* the other entry points would have returned something else.
C13_Witness ==
  /\ Relayed
  /\ h_kind = "compat_ioctl"
  /\ h_f_op[1] = {"read", "write", "unlocked_ioctl"}
  /\ h_called = "unlocked_ioctl"
  /\ h_ret < 0
  /\ h_results["read"] > 0
  /\ h_results["compat_ioctl"] > 0

\* the failures for a missing device or an operation that is not supported
\* (-EINVAL is what the kernel itself returns for a read or write on a file
\* without that method)
NoDeviceOrUnsupported == {-ENODEV, -ENOTTY, -EINVAL}

\* C14: a handler whose file has no handle or no backing file returns
\* -ENODEV at once, leaving the ticket counter, the serving cursor and the
\* owner as they were; a handler whose backing file has no f_op or no entry
\* point for its kind returns -ENODEV, -ENOTTY or -EINVAL, never a success,
\* and calls no entry point.
C14_NoDeviceOrUnsupported ==
  /\ [][(h_pc = "start" /\ h_priv /= "ok" /\ h_pc' /= h_pc) =>
          /\ h_pc' = "done"
          /\ h_ret' = -ENODEV
          /\ g_next_ticket' = g_next_ticket
          /\ g_serving' = g_serving
          /\ g_owner_fh' = g_owner_fh]_vars
  /\ [](h_pc = "done" /\ h_priv /= "ok" => g_next_ticket = 0)
  /\ []((h_pc = "done" /\ h_priv = "ok"
           /\ (h_f_op = <<>> \/ ForwardEntry(h_kind, h_f_op[1]) = "none"))
          => (h_ret \in NoDeviceOrUnsupported /\ h_ret < 0
              /\ h_called = "none"))
  /\ [](\A k \in OpKinds, f_op \in {<<>>, <<{}>>, <<EntryPoints>>} :
          spibridge_forward(k, FALSE, f_op, h_results) = -ENODEV)

\* C14 witness: a read on a backing file that has only the ioctl entry
\* points has returned -EINVAL after going through the queue.
C14_Witness ==
  /\ h_pc = "done"
  /\ h_priv = "ok"
  /\ h_kind = "read"
  /\ h_f_op = <<{"unlocked_ioctl", "compat_ioctl"}>>
  /\ h_ret = -EINVAL
  /\ g_serving = 1

\* C14, the case of the missing backing file: the call has returned -ENODEV
\* and no ticket was allocated.
C14_NoHandleReturned ==
  h_pc = "done" /\ h_priv = "nofilp" /\ h_ret = -ENODEV /\ g_next_ticket = 0

\* C15: a call that has recorded a timeout or an interruption keeps its
\* ticket: the cursor never passes it; it leaves the queue only when the
\* cursor equals its ticket and the hold permits its endpoint, and then goes
\* to spibridge_queue_exit with the first failure it recorded as its return
\* value, without spibridge_owner_touch, without the mutex and without a
\* backing call; the failure once recorded is never replaced; a timeout and
\* an interruption are different values.
C15_FailedWaitKeepsPlace ==
  /\ [](\A p \in Procs :
         pending_err[p] /= 0 =>
           /\ pending_err[p] \in {-ETIMEDOUT, -ERESTARTSYS}
           /\ g_serving <= ticket[p]
           /\ pc[p] \notin {"lock", "call"}
           /\ g_exec_mutex /= p
           /\ pc[p] \in {"exit", "exit_inc"} =>
                (g_serving = ticket[p] /\ retval[p] = pending_err[p]))
  /\ [][\A p \in Procs :
          pending_err[p] /= 0 =>
            /\ pc'[p] /= "idle" => pending_err'[p] = pending_err[p]
            /\ (InQueue(p) /\ pc'[p] \notin {"enter", "c154", "wait",
                                                "sleep", "c170"}) =>
                 /\ pc'[p] = "exit"
                 /\ g_serving = ticket[p]
                 /\ owner_hold_ms > 0 => HoldPermits(fh[p])
                 /\ g_owner_until' = g_owner_until
                 /\ g_owner_fh' \in {g_owner_fh, NULL}]_vars
  /\ [](-ETIMEDOUT /= -ERESTARTSYS)

\* C15 witness: a call that timed out behind another call and was signalled
\* afterwards is about to retire its ticket and return the timeout.
C15_Witness ==
  \E p \in Procs :
    /\ pc[p] = "exit_inc"
    /\ pending_err[p] = -ETIMEDOUT
    /\ sigpending[p]
    /\ ticket[p] >= 1

\* a call that was admitted without a recorded failure
Served(p) == Admitted(p) /\ pending_err[p] = 0

\* C16: a call admitted without failure goes once through admission with
\* spibridge_owner_touch, mutex_lock, one backing call, mutex_unlock and the
\* retirement of its ticket, in this order; the cursor equals its ticket
\* from admission to retirement; the mutex is held during the backing call
\* only, so it is free when the cursor advances; the owner written by the
\* touch is not written again before the call has returned.
C16_StepsInOrder ==
  /\ [](\A p \in Procs :
         Served(p) =>
           /\ g_serving = ticket[p]
           /\ (pc[p] = "call") <=> (g_exec_mutex = p)
           /\ owner_hold_ms > 0 => g_owner_fh = fh[p])
  /\ [][\A p \in Procs :
          (pending_err[p] = 0 /\ pc'[p] /= pc[p]) =>
            /\ pc'[p] = "lock" =>
                 /\ InQueue(p)
                 /\ owner_hold_ms > 0 =>
                      /\ g_owner_fh' = fh[p]
                      /\ g_owner_until' = msecs_to_jiffies(owner_hold_ms)
            /\ pc'[p] = "call" => (pc[p] = "lock" /\ g_exec_mutex = NULL)
            /\ pc'[p] = "exit" =>
                 /\ pc[p] = "call"
                 /\ g_exec_mutex' = NULL
                 /\ retval'[p] \in BackingResults
            /\ pc'[p] = "exit_inc" => pc[p] = "exit"
            /\ pc[p] = "exit_inc" =>
                 /\ pc'[p] = "idle"
                 /\ g_exec_mutex = NULL
                 /\ g_serving' = g_serving + 1
            /\ pc[p] = "lock" => pc'[p] = "call"
            /\ pc[p] = "call" => pc'[p] = "exit"
            /\ pc[p] = "exit" => pc'[p] = "exit_inc"]_vars
  /\ [][\A p \in Procs :
          (Served(p) /\ pc'[p] /= "idle") =>
            (g_owner_fh' = g_owner_fh /\ g_owner_until' <= g_owner_until)]_vars

\* C16 witness: with the hold enabled, a call with a later ticket has made
\* its backing call, which succeeded, has released the mutex and is about
\* to advance the cursor, while time has passed since its touch.
C16_Witness ==
  /\ owner_hold_ms > 0
  /\ \E p \in Procs :
       /\ pc[p] = "exit_inc"
       /\ pending_err[p] = 0
       /\ retval[p] > 0
       /\ ticket[p] >= 1
       /\ g_owner_fh = fh[p]
       /\ g_owner_until < msecs_to_jiffies(owner_hold_ms)

C18_GateNeverContended ==
  /\ Cardinality({p \in Procs : Admitted(p)}) <= 1
  /\ \A p \in Procs : pc[p] = "lock" => g_exec_mutex = NULL

\* C18 witness: after an earlier call has retired, a call is about to take
\* the mutex while the call holding the next ticket is in the queue.
C18_Witness ==
  /\ g_serving >= 1
  /\ \E p, q \in Procs :
       /\ pc[p] = "lock"
       /\ InQueue(q)
       /\ ticket[q] = ticket[p] + 1

\* C19: the recorded owner is NULL or an endpoint that is open, and with
\* the hold disabled it is NULL.
C19_OwnerIsOpenEndpoint ==
  /\ g_owner_fh = NULL \/ isopen[g_owner_fh]
  /\ owner_hold_ms <= 0 => g_owner_fh = NULL

\* C19 witness: the endpoint that was the recorded owner has just been
\* closed before its hold deadline; no owner is recorded, and the other
\* endpoint is open.
C19_Witness ==
  /\ lastRelease[1] /= NULL
  /\ lastRelease[2] = lastRelease[1]
  /\ g_owner_fh = NULL
  /\ g_owner_until > 0
  /\ \E f \in Files : isopen[f]

====
